---- MODULE Spec2Model ----
(***************************************************************************)
(* A model of the reco-sdk client (class RecoClient).                      *)
(*                                                                         *)
(* The client is constructed once from caller options; the constructor     *)
(* resolves the endpoint and the timeout and creates one axios instance.   *)
(* Every operation is an async method: it runs synchronously up to its     *)
(* first await (validation, then the call of this.client.post/delete) and  *)
(* is settled later by the transport (a response or a transport error).    *)
(*                                                                         *)
(* JavaScript values are records [t, s, n]: t is the JavaScript type, s    *)
(* the value of a string, n the value of a number.  An absent property of  *)
(* an object reads as undefined, so an object is a record whose fields     *)
(* hold JavaScript values.                                                 *)
(***************************************************************************)
EXTENDS Integers, Sequences, FiniteSets, TLC

VARIABLES
    options,    \* the options the constructor was called with
    phase,      \* "new" (not constructed), "ready", "failed" (constructor threw)
    client,     \* this.client: the configuration given to axios.create
    created,    \* how many times axios.create was called
    ctorError,  \* the error the constructor threw, NoError if none
    call,       \* the operation call made last: its promise's state
    sent,       \* the requests that call handed to the transport, in order
    settled,    \* what the transport gave for that call's request
    calls,      \* the calls a caller made without awaiting them, in call order
    twin        \* the same call made by a second run: a client just constructed
                \* from the same options, that made no call before

vars == <<options, phase, client, created, ctorError, call, sent, settled, calls, twin>>

-----------------------------------------------------------------------------
(* JavaScript values *)

Undef == [t |-> "undefined", s |-> "", n |-> 0]
Null == [t |-> "null", s |-> "", n |-> 0]
Str(x) == [t |-> "string", s |-> x, n |-> 0]
Num(k) == [t |-> "number", s |-> "", n |-> k]

\* !v : undefined, null, "" and 0 are falsy (no NaN or boolean is drawn).
Falsy(v) ==
    \/ v.t \in {"undefined", "null"}
    \/ v.t = "string" /\ v.s = ""
    \/ v.t = "number" /\ v.n = 0

\* a || b
OrElse(a, b) == IF Falsy(a) THEN b ELSE a

\* a === b on primitives: same type and same value.
StrictEq(a, b) == a.t = b.t /\ a.s = b.s /\ a.n = b.n

\* A batch argument: a JavaScript array (elems), or a value that is no array.
Arr(es) == [t |-> "array", s |-> "", elems |-> es]
NonArr(v) == [t |-> v.t, s |-> v.s, elems |-> <<>>]

\* Array.isArray(v)
IsArray(v) == v.t = "array"

\* v.length === 0, for an array or a string (reached only when v is truthy).
LengthIsZero(v) ==
    CASE v.t = "array" -> Len(v.elems) = 0
      [] v.t = "string" -> Len(v.s) = 0
      [] OTHER -> FALSE

\* !v for a batch argument: an array is always truthy.
FalsyArg(v) == v.t \in {"undefined", "null"} \/ (v.t = "string" /\ v.s = "")

\* new Error(message)
NoError == [name |-> "", message |-> ""]
Err(msg) == [name |-> "Error", message |-> msg]

-----------------------------------------------------------------------------
(* The constructor *)

defaultHost == "https://reco-api.mioren.com"
DefaultTimeout == 10000

\* What running a constructor gives: the error it threw (NoError if none)
\* and the configurations it passed to axios.create.
CtorThrow(e) == [error |-> e, created |-> <<>>]
AxiosCreate(baseURL, timeout, apiKey) ==
    [error |-> NoError,
     created |-> << [baseURL |-> baseURL,
                     timeout |-> timeout,
                     headers |-> [xApiKey |-> apiKey,
                                  contentType |-> "application/json"]] >>]

\* constructor with a fault: the versioned path segment is left out of the
\* endpoint composed from the project id.
constructor_NoVersionSegment(o) ==
    IF Falsy(o.baseUrl)
    THEN IF ~Falsy(o.projectId)
         THEN AxiosCreate(Str(defaultHost \o "/projects/" \o o.projectId.s),
                          OrElse(o.timeout, Num(DefaultTimeout)), o.apiKey)
         ELSE CtorThrow(Err("RecoSDK: 'projectId' is required in options unless 'baseUrl' is explicitly provided."))
    ELSE AxiosCreate(o.baseUrl, OrElse(o.timeout, Num(DefaultTimeout)), o.apiKey)

\* constructor with a fault: the project id takes precedence over baseUrl.
constructor_ProjectIdFirst(o) ==
    IF ~Falsy(o.projectId)
    THEN AxiosCreate(Str(defaultHost \o "/api/v1/projects/" \o o.projectId.s),
                     OrElse(o.timeout, Num(DefaultTimeout)), o.apiKey)
    ELSE IF ~Falsy(o.baseUrl)
    THEN AxiosCreate(o.baseUrl, OrElse(o.timeout, Num(DefaultTimeout)), o.apiKey)
    ELSE CtorThrow(Err("RecoSDK: 'projectId' is required in options unless 'baseUrl' is explicitly provided."))

constructor(o) ==
    IF Falsy(o.baseUrl)
    THEN IF ~Falsy(o.projectId)
         THEN AxiosCreate(Str(defaultHost \o "/api/v1/projects/" \o o.projectId.s),
                          OrElse(o.timeout, Num(DefaultTimeout)), o.apiKey)
         ELSE CtorThrow(Err("RecoSDK: 'projectId' is required in options unless 'baseUrl' is explicitly provided."))
    ELSE AxiosCreate(o.baseUrl, OrElse(o.timeout, Num(DefaultTimeout)), o.apiKey)

-----------------------------------------------------------------------------
(* What running an operation up to its first await gives: the error it     *)
(* threw (NoError if none) and the requests it handed to the transport.    *)

Throw(e) == [error |-> e, requests |-> <<>>]
Post(url, data) ==
    [error |-> NoError,
     requests |-> << [method |-> "POST", url |-> url, hasBody |-> TRUE, data |-> data] >>]
Delete(url) ==
    [error |-> NoError,
     requests |-> << [method |-> "DELETE", url |-> url, hasBody |-> FALSE, data |-> Undef] >>]

\* ForEach with a fault: the loop runs to the end and the error of the last
\* element it rejects is the one thrown.
ForEach_LastRejected(outcomes) ==
    LET bad == {k \in 1..Len(outcomes) : outcomes[k] # NoError}
    IN  IF bad = {} THEN NoError
        ELSE outcomes[CHOOSE k \in bad : \A j \in bad : k >= j]

\* arr.forEach(validate), given the outcome of validate for each element in
\* array order: the error of the first element it rejects (the throw leaves
\* the loop), NoError when it rejects none.
ForEach(outcomes) ==
    LET bad == {k \in 1..Len(outcomes) : outcomes[k] # NoError}
    IN  IF bad = {} THEN NoError
        ELSE outcomes[CHOOSE k \in bad : \A j \in bad : k <= j]

\* validateItem with a fault: only an absent item_id is rejected, the empty
\* string is let through.
validateItem_UndefinedOnly(item) ==
    IF StrictEq(item.item_id, Undef)
    THEN Err("RecoSDK: Validation Error - 'item_id' is required for item operations.")
    ELSE NoError

validateItem(item) ==
    IF Falsy(item.item_id)
    THEN Err("RecoSDK: Validation Error - 'item_id' is required for item operations.")
    ELSE NoError

validateUser(user) ==
    IF Falsy(user.user_id)
    THEN Err("RecoSDK: Validation Error - 'user_id' is required for user operations.")
    ELSE NoError

\* validateInteraction with a fault: the impression rule is left out.
validateInteraction_NoImpressionRule(i) ==
    IF Falsy(i.user_id)
    THEN Err("RecoSDK: Validation Error - 'user_id' is required for interactions.")
    ELSE IF Falsy(i.item_id)
    THEN Err("RecoSDK: Validation Error - 'item_id' is required for interactions.")
    ELSE IF Falsy(i.type)
    THEN Err("RecoSDK: Validation Error - 'type' is required for interactions.")
    ELSE IF StrictEq(i.value, Undef) \/ StrictEq(i.value, Null)
    THEN Err("RecoSDK: Validation Error - 'value' is required for interactions.")
    ELSE NoError

\* validateInteraction with a fault: the value is tested with !value, so that
\* 0 counts as missing.
validateInteraction_FalsyValue(i) ==
    IF Falsy(i.user_id)
    THEN Err("RecoSDK: Validation Error - 'user_id' is required for interactions.")
    ELSE IF Falsy(i.item_id)
    THEN Err("RecoSDK: Validation Error - 'item_id' is required for interactions.")
    ELSE IF Falsy(i.type)
    THEN Err("RecoSDK: Validation Error - 'type' is required for interactions.")
    ELSE IF Falsy(i.value)
    THEN Err("RecoSDK: Validation Error - 'value' is required for interactions.")
    ELSE IF StrictEq(i.type, Str("impression")) /\ ~StrictEq(i.value, Num(0))
    THEN Err("RecoSDK: Validation Error - Interaction type 'impression' must have value 0.")
    ELSE NoError

validateInteraction(i) ==
    IF Falsy(i.user_id)
    THEN Err("RecoSDK: Validation Error - 'user_id' is required for interactions.")
    ELSE IF Falsy(i.item_id)
    THEN Err("RecoSDK: Validation Error - 'item_id' is required for interactions.")
    ELSE IF Falsy(i.type)
    THEN Err("RecoSDK: Validation Error - 'type' is required for interactions.")
    ELSE IF StrictEq(i.value, Undef) \/ StrictEq(i.value, Null)
    THEN Err("RecoSDK: Validation Error - 'value' is required for interactions.")
    ELSE IF StrictEq(i.type, Str("impression")) /\ ~StrictEq(i.value, Num(0))
    THEN Err("RecoSDK: Validation Error - Interaction type 'impression' must have value 0.")
    ELSE NoError

getRecommendations(request) ==
    IF Falsy(request.user_id)
    THEN Throw(Err("RecoSDK: Validation Error - 'user_id' is required for recommendations."))
    ELSE Post("/recommendations", request)

trackInteraction(interaction) ==
    LET e == validateInteraction(interaction)
    IN  IF e # NoError THEN Throw(e) ELSE Post("/interactions", interaction)

batchTrackInteractions(interactions) ==
    IF ~IsArray(interactions)
    THEN Throw(Err("RecoSDK: Validation Error - batchTrackInteractions expects an array."))
    ELSE LET e == ForEach([k \in 1..Len(interactions.elems) |-> validateInteraction(interactions.elems[k])])
         IN  IF e # NoError THEN Throw(e)
             ELSE Post("/interactions/bulk", [interactions |-> interactions])

\* upsertItem with a fault: the request is posted before the item is
\* validated.
upsertItem_PostFirst(item) ==
    [error |-> validateItem(item), requests |-> Post("/items", item).requests]

upsertItem(item) ==
    LET e == validateItem(item)
    IN  IF e # NoError THEN Throw(e) ELSE Post("/items", item)

batchUpsertItems(items) ==
    IF ~IsArray(items)
    THEN Throw(Err("RecoSDK: Validation Error - batchUpsertItems expects an array."))
    ELSE LET e == ForEach([k \in 1..Len(items.elems) |-> validateItem(items.elems[k])])
         IN  IF e # NoError THEN Throw(e)
             ELSE Post("/items/bulk", [items |-> items])

\* encodeURIComponent, on the identifiers drawn.
EncodeURIComponent(x) ==
    IF x = "item-with-special/chars" THEN "item-with-special%2Fchars" ELSE x

\* deleteItem with a fault: the identifier is percent-encoded into the path.
deleteItem_Encoded(itemId) ==
    IF Falsy(itemId)
    THEN Throw(Err("RecoSDK: Validation Error - itemId is required."))
    ELSE Delete("/items/" \o EncodeURIComponent(itemId.s))

deleteItem(itemId) ==
    IF Falsy(itemId)
    THEN Throw(Err("RecoSDK: Validation Error - itemId is required."))
    ELSE Delete("/items/" \o itemId.s)

\* batchDeleteItems with a fault: the test for an empty array is left out.
batchDeleteItems_NoLengthTest(itemIds) ==
    IF FalsyArg(itemIds)
    THEN Throw(Err("RecoSDK: Validation Error - itemIds array is required and cannot be empty."))
    ELSE Post("/items/bulk-delete", [item_ids |-> itemIds])

batchDeleteItems(itemIds) ==
    IF FalsyArg(itemIds) \/ LengthIsZero(itemIds)
    THEN Throw(Err("RecoSDK: Validation Error - itemIds array is required and cannot be empty."))
    ELSE Post("/items/bulk-delete", [item_ids |-> itemIds])

upsertUser(user) ==
    LET e == validateUser(user)
    IN  IF e # NoError THEN Throw(e) ELSE Post("/users", user)

\* batchUpsertUsers with a fault: an empty array is rejected, as the batch
\* deletes reject it.
batchUpsertUsers_RejectEmpty(users) ==
    IF ~IsArray(users) \/ LengthIsZero(users)
    THEN Throw(Err("RecoSDK: Validation Error - batchUpsertUsers expects an array."))
    ELSE LET e == ForEach([k \in 1..Len(users.elems) |-> validateUser(users.elems[k])])
         IN  IF e # NoError THEN Throw(e)
             ELSE Post("/users/bulk", [users |-> users])

batchUpsertUsers(users) ==
    IF ~IsArray(users)
    THEN Throw(Err("RecoSDK: Validation Error - batchUpsertUsers expects an array."))
    ELSE LET e == ForEach([k \in 1..Len(users.elems) |-> validateUser(users.elems[k])])
         IN  IF e # NoError THEN Throw(e)
             ELSE Post("/users/bulk", [users |-> users])

\* deleteUser with a fault: the test of the id is left out.
deleteUser_NoTest(userId) == Delete("/users/" \o userId.s)

deleteUser(userId) ==
    IF Falsy(userId)
    THEN Throw(Err("RecoSDK: Validation Error - userId is required."))
    ELSE Delete("/users/" \o userId.s)

\* batchDeleteUsers with a fault: every id is tested as deleteUser tests its
\* id.
batchDeleteUsers_ValidatesIds(userIds) ==
    IF FalsyArg(userIds) \/ LengthIsZero(userIds)
    THEN Throw(Err("RecoSDK: Validation Error - userIds array is required and cannot be empty."))
    ELSE IF IsArray(userIds) /\ \E k \in 1..Len(userIds.elems) : Falsy(userIds.elems[k])
    THEN Throw(Err("RecoSDK: Validation Error - userId is required."))
    ELSE Post("/users/bulk-delete", [user_ids |-> userIds])

batchDeleteUsers(userIds) ==
    IF FalsyArg(userIds) \/ LengthIsZero(userIds)
    THEN Throw(Err("RecoSDK: Validation Error - userIds array is required and cannot be empty."))
    ELSE Post("/users/bulk-delete", [user_ids |-> userIds])

\* Return with a fault: getRecommendations rebuilds the response and loses
\* its recommendation_id.
Return_Rebuilt(op, response) ==
    IF op = "getRecommendations"
    THEN [response.data EXCEPT !.recommendation_id = Undef]
    ELSE Undef

\* What an operation returns once its await resolved with `response`:
\* getRecommendations returns response.data, every other operation nothing.
Return(op, response) ==
    IF op = "getRecommendations" THEN response.data ELSE Undef

-----------------------------------------------------------------------------
(* The second RecoClient class of the repository (src/unnamed/part_000).   *)
(* Its validateItem, validateUser, getRecommendations, upsertItem,         *)
(* batchUpsertItems, upsertUser, batchUpsertUsers and deleteItem have the  *)
(* same code as above; it has no deleteUser and no batchDeleteUsers.  The  *)
(* definitions below are the ones whose code differs.                      *)

part000_constructor(o) ==
    IF Falsy(o.baseUrl)
    THEN IF ~Falsy(o.projectId)
         THEN AxiosCreate(Str(defaultHost \o "/api/v1/projects/" \o o.projectId.s),
                          OrElse(o.timeout, Num(DefaultTimeout)), o.apiKey)
         ELSE AxiosCreate(Str(defaultHost), OrElse(o.timeout, Num(DefaultTimeout)), o.apiKey)
    ELSE AxiosCreate(o.baseUrl, OrElse(o.timeout, Num(DefaultTimeout)), o.apiKey)

part000_trackInteraction(interaction) ==
    IF Falsy(interaction.user_id) \/ Falsy(interaction.item_id) \/ Falsy(interaction.type)
    THEN Throw(Err("RecoSDK: Validation Error - Interaction must have user_id, item_id, and type."))
    ELSE Post("/interactions", interaction)

part000_batchTrackInteractions(interactions) ==
    Post("/interactions/bulk", [interactions |-> interactions])

part000_batchDeleteItems(itemIds) ==
    IF FalsyArg(itemIds) \/ LengthIsZero(itemIds)
    THEN Throw(Err("RecoSDK: Validation Error - itemIds array required."))
    ELSE Post("/items/bulk-delete", [item_ids |-> itemIds])

-----------------------------------------------------------------------------
(* The inputs the caller and the transport can supply *)

MaxLen == 2

SeqsUpTo(S, n) == UNION {[1..k -> S] : k \in 0..n}

\* The options drawn: every combination of project id, base URL and timeout
\* with one API key, and a second API key with the default timeout.
Options ==
    [apiKey : {Str("test-api-key")},
     projectId : {Undef, Str(""), Str("p1"), Str("test-project-id")},
     baseUrl : {Undef, Str(""), Str("https://custom-api.example.com")},
     timeout : {Undef, Num(0), Num(-5), Num(30000)}]
    \cup
    [apiKey : {Str("other-api-key")},
     projectId : {Undef, Str("p1")},
     baseUrl : {Undef, Str(""), Str("https://custom-api.example.com")},
     timeout : {Undef}]

RecommendationRequests ==
    [user_id : {Undef, Str(""), Str("u1")}, limit : {Undef, Num(10)}]

Interactions ==
    [user_id : {Undef, Str("u1")},
     item_id : {Str(""), Str("i1")},
     type : {Undef, Str("view"), Str("impression")},
     value : {Undef, Null, Num(0), Num(1)}]

\* The interactions drawn as elements of a batch: complete ones of either
\* type with value 0 or 1, and one without a value.
BatchInteractions ==
    {i \in Interactions :
        /\ i.user_id = Str("u1") /\ i.item_id = Str("i1")
        /\ \/ i.type # Undef /\ i.value \in {Num(0), Num(1)}
           \/ i.type = Str("view") /\ i.value = Undef}

Items == [item_id : {Undef, Str(""), Str("i1")}, created_at : {Undef, Str("2024-01-01")}]

Users == [user_id : {Undef, Str(""), Str("u1")}, created_at : {Undef, Str("2024-01-01")}]

\* The items and users drawn as elements of a batch.
BatchItems == {i \in Items : i.created_at = Undef}
BatchUsers == {u \in Users : u.created_at = Undef}

Ids == {Undef, Str(""), Str("id1"), Str("item-with-special/chars")}

\* Arguments of the batch operations that are no arrays.
NonArrays == {NonArr(Undef), NonArr(Null), NonArr(Str("ab"))}

ArraysOf(S) == {Arr(es) : es \in SeqsUpTo(S, MaxLen)}

\* The parsed bodies the service answers with.
ResponseBodies ==
    { [recommendations |-> << [item_id |-> Str("item-1")], [item_id |-> Str("item-2")] >>,
       recommendation_id |-> Str("rec-123")],
      [recommendations |-> <<>>, recommendation_id |-> Undef] }

\* The errors the transport rejects a request with.
TransportErrors ==
    { [name |-> "AxiosError", message |-> "Request failed with status code 401"],
      [name |-> "Error", message |-> "ECONNREFUSED"],
      [name |-> "Error", message |-> "timeout of 10000ms exceeded"] }

-----------------------------------------------------------------------------
(* The state machine *)

NoOptions == [apiKey |-> Undef, projectId |-> Undef, baseUrl |-> Undef, timeout |-> Undef]
NoClient == [baseURL |-> Undef, timeout |-> Undef]
NoCall == [op |-> "none", arg |-> Undef, status |-> "none", error |-> NoError, result |-> Undef]

\* What the transport gives for a request: nothing yet, a response with its
\* parsed body, or an error.
NoOutcome == [kind |-> "none", data |-> Undef, error |-> NoError]
Response(d) == [kind |-> "response", data |-> d, error |-> NoError]
Failure(e) == [kind |-> "error", data |-> Undef, error |-> e]

\* The second run before its call, with the outcomes of the calls that
\* preceded in the first run.
NoTwin ==
    [preceded |-> {}, op |-> "none", arg |-> Undef, status |-> "none",
     error |-> NoError, result |-> Undef, sent |-> <<>>]

Init ==
    /\ options = NoOptions
    /\ phase = "new"
    /\ client = NoClient
    /\ created = 0
    /\ ctorError = NoError
    /\ call = NoCall
    /\ sent = <<>>
    /\ settled = NoOutcome
    /\ calls = <<>>
    /\ twin = NoTwin

\* new RecoClient(o), with `r` what the constructor's code gives for o.
Construct(o, r) ==
    /\ phase = "new"
    /\ options' = o
    /\ ctorError' = r.error
    /\ created' = Len(r.created)
    /\ IF r.error = NoError
       THEN phase' = "ready" /\ client' = r.created[1]
       ELSE phase' = "failed" /\ client' = NoClient
    /\ UNCHANGED <<twin, call, sent, settled, calls>>

New == \E o \in Options : Construct(o, constructor(o))

\* Invoke with a fault: a call that fails validation builds the axios
\* instance anew, for the default host and without the API key.
Invoke_Reconfigure(op, arg, r) ==
    /\ phase = "ready"
    /\ call.status # "pending"
    /\ sent' = r.requests
    /\ settled' = NoOutcome
    /\ call' = [op |-> op, arg |-> arg,
                status |-> IF r.error # NoError THEN "rejected" ELSE "pending",
                error |-> r.error, result |-> Undef]
    /\ client' = IF r.error # NoError
                 THEN AxiosCreate(Str(defaultHost), Num(DefaultTimeout), Undef).created[1]
                 ELSE client
    /\ UNCHANGED <<twin, calls, options, phase, created, ctorError>>

\* client.op(arg), with `r` what the operation's code gives for arg up to
\* its first await.  The caller awaits each call before it makes the next.
Invoke(op, arg, r) ==
    /\ phase = "ready"
    /\ call.status # "pending"
    /\ sent' = r.requests
    /\ settled' = NoOutcome
    /\ call' = [op |-> op, arg |-> arg,
                status |-> IF r.error # NoError THEN "rejected" ELSE "pending",
                error |-> r.error, result |-> Undef]
    /\ UNCHANGED <<twin, calls, options, phase, client, created, ctorError>>

GetRecommendations ==
    \E a \in RecommendationRequests : Invoke("getRecommendations", a, getRecommendations(a))
TrackInteraction ==
    \E a \in Interactions : Invoke("trackInteraction", a, trackInteraction(a))
BatchTrackInteractions ==
    \E a \in ArraysOf(BatchInteractions) \cup NonArrays :
        Invoke("batchTrackInteractions", a, batchTrackInteractions(a))
UpsertItem ==
    \E a \in Items : Invoke("upsertItem", a, upsertItem(a))
BatchUpsertItems ==
    \E a \in ArraysOf(BatchItems) \cup NonArrays : Invoke("batchUpsertItems", a, batchUpsertItems(a))
DeleteItem ==
    \E a \in Ids : Invoke("deleteItem", a, deleteItem(a))
BatchDeleteItems ==
    \E a \in ArraysOf({Str(""), Str("id1")}) \cup NonArrays :
        Invoke("batchDeleteItems", a, batchDeleteItems(a))
UpsertUser ==
    \E a \in Users : Invoke("upsertUser", a, upsertUser(a))
BatchUpsertUsers ==
    \E a \in ArraysOf(BatchUsers) \cup NonArrays : Invoke("batchUpsertUsers", a, batchUpsertUsers(a))
DeleteUser ==
    \E a \in Ids : Invoke("deleteUser", a, deleteUser(a))
BatchDeleteUsers ==
    \E a \in ArraysOf({Str(""), Str("id1")}) \cup NonArrays :
        Invoke("batchDeleteUsers", a, batchDeleteUsers(a))

\* The transport answers the pending request: the awaiting operation resumes
\* and returns.
TransportResolve ==
    /\ call.status = "pending"
    /\ \E d \in ResponseBodies :
        /\ settled' = Response(d)
        /\ call' = [call EXCEPT !.status = "resolved", !.result = Return(call.op, [data |-> d])]
    /\ UNCHANGED <<twin, calls, options, phase, client, created, ctorError, sent>>

\* TransportReject with a fault: the failed request is issued a second time.
TransportReject_Retry ==
    /\ call.status = "pending"
    /\ \E e \in TransportErrors :
        /\ settled' = Failure(e)
        /\ call' = [call EXCEPT !.status = "rejected", !.error = e]
    /\ sent' = Append(sent, sent[1])
    /\ UNCHANGED <<twin, calls, options, phase, client, created, ctorError>>

\* TransportReject with a fault: the transport's error is caught and
\* replaced by an error of the library.
TransportReject_Wrapped ==
    /\ call.status = "pending"
    /\ \E e \in TransportErrors :
        /\ settled' = Failure(e)
        /\ call' = [call EXCEPT !.status = "rejected",
                                !.error = Err("RecoSDK: Request failed - " \o e.message)]
    /\ UNCHANGED <<twin, calls, options, phase, client, created, ctorError, sent>>

\* The transport fails the pending request (network error, non-2xx status,
\* timeout): the await throws, the operation has no catch, its promise
\* rejects with that error.
TransportReject ==
    /\ call.status = "pending"
    /\ \E e \in TransportErrors :
        /\ settled' = Failure(e)
        /\ call' = [call EXCEPT !.status = "rejected", !.error = e]
    /\ UNCHANGED <<twin, calls, options, phase, client, created, ctorError, sent>>

Operation ==
    \/ GetRecommendations \/ TrackInteraction \/ BatchTrackInteractions
    \/ UpsertItem \/ BatchUpsertItems \/ DeleteItem \/ BatchDeleteItems
    \/ UpsertUser \/ BatchUpsertUsers \/ DeleteUser \/ BatchDeleteUsers

Next == New \/ Operation \/ TransportResolve \/ TransportReject

Spec == Init /\ [][Next]_vars

-----------------------------------------------------------------------------
(* The state machine of the class of src/unnamed/part_000 *)

Part000New == \E o \in Options : Construct(o, part000_constructor(o))

Part000TrackInteraction ==
    \E a \in Interactions : Invoke("trackInteraction", a, part000_trackInteraction(a))
Part000BatchTrackInteractions ==
    \E a \in ArraysOf(BatchInteractions) \cup NonArrays :
        Invoke("batchTrackInteractions", a, part000_batchTrackInteractions(a))
Part000BatchDeleteItems ==
    \E a \in ArraysOf({Str(""), Str("id1")}) \cup NonArrays :
        Invoke("batchDeleteItems", a, part000_batchDeleteItems(a))

Part000Operation ==
    \/ GetRecommendations \/ Part000TrackInteraction \/ Part000BatchTrackInteractions
    \/ UpsertItem \/ BatchUpsertItems \/ DeleteItem \/ Part000BatchDeleteItems
    \/ UpsertUser \/ BatchUpsertUsers

Part000Next == Part000New \/ Part000Operation \/ TransportResolve \/ TransportReject

Part000Spec == Init /\ [][Part000Next]_vars

-----------------------------------------------------------------------------
(* Properties of the operations *)

\* The call was rejected by the operation's own code, before its await: a
\* validation error, not an error of the transport.
ValidationFailed == call.status = "rejected" /\ call.error \notin TransportErrors

\* The call got past validation: it is pending, resolved, or was rejected by
\* the transport.
PassedValidation ==
    \/ call.status \in {"pending", "resolved"}
    \/ call.status = "rejected" /\ call.error \in TransportErrors

\* An identifier that is missing or the empty string.
MissingOrEmpty(v) == v = Undef \/ v = Str("")

\* The operation table: the request each operation is to issue for its
\* argument.
TableRequest(op, arg) ==
    CASE op = "getRecommendations" ->
            [method |-> "POST", url |-> "/recommendations", hasBody |-> TRUE, data |-> arg]
      [] op = "trackInteraction" ->
            [method |-> "POST", url |-> "/interactions", hasBody |-> TRUE, data |-> arg]
      [] op = "batchTrackInteractions" ->
            [method |-> "POST", url |-> "/interactions/bulk", hasBody |-> TRUE,
             data |-> [interactions |-> arg]]
      [] op = "upsertItem" ->
            [method |-> "POST", url |-> "/items", hasBody |-> TRUE, data |-> arg]
      [] op = "batchUpsertItems" ->
            [method |-> "POST", url |-> "/items/bulk", hasBody |-> TRUE,
             data |-> [items |-> arg]]
      [] op = "deleteItem" ->
            [method |-> "DELETE", url |-> "/items/" \o arg.s, hasBody |-> FALSE, data |-> Undef]
      [] op = "batchDeleteItems" ->
            [method |-> "POST", url |-> "/items/bulk-delete", hasBody |-> TRUE,
             data |-> [item_ids |-> arg]]
      [] op = "upsertUser" ->
            [method |-> "POST", url |-> "/users", hasBody |-> TRUE, data |-> arg]
      [] op = "batchUpsertUsers" ->
            [method |-> "POST", url |-> "/users/bulk", hasBody |-> TRUE,
             data |-> [users |-> arg]]
      [] op = "deleteUser" ->
            [method |-> "DELETE", url |-> "/users/" \o arg.s, hasBody |-> FALSE, data |-> Undef]
      [] op = "batchDeleteUsers" ->
            [method |-> "POST", url |-> "/users/bulk-delete", hasBody |-> TRUE,
             data |-> [user_ids |-> arg]]

\* C1: a call of any operation that ends in a validation error has handed no
\* request to the transport: validation is over before any transport call.
C1_ValidationBeforeTransport == ValidationFailed => Len(sent) = 0

C1_Witness ==
    /\ call.op = "batchUpsertItems" /\ ValidationFailed
    /\ call.arg.t = "array" /\ Len(call.arg.elems) = 2

\* C2: a call whose argument passed validation has handed exactly one request
\* to the transport, while it is pending, after the transport answered and
\* after the transport failed or timed out: never none, never a second one.
C2_ExactlyOneRequest == PassedValidation => Len(sent) = 1

C2_Witness ==
    /\ call.status = "rejected"
    /\ call.error.message = "timeout of 10000ms exceeded"
    /\ Len(sent) = 1

\* C3: the request an operation issues is the one of the operation table:
\* its method, its path (the id of a delete placed in it as it is, not
\* encoded) and its body (the caller's payload, wrapped under the named key
\* for the bulk calls).
C3_OperationTable ==
    Len(sent) >= 1 => \A k \in 1..Len(sent) : sent[k] = TableRequest(call.op, call.arg)

C3_Witness ==
    /\ call.op = "deleteItem"
    /\ call.arg = Str("item-with-special/chars")
    /\ Len(sent) = 1
    /\ sent[1].url = "/items/item-with-special/chars"

\* C4: a call whose required identifier is missing or empty is rejected with
\* the validation error of that identifier and issues no request: item_id
\* for upsertItem and every element of batchUpsertItems, user_id for
\* upsertUser, every element of batchUpsertUsers and getRecommendations.
C4_MissingIdentifier ==
    LET rejectedWith(msg) ==
            /\ ValidationFailed
            /\ call.error = Err(msg)
            /\ Len(sent) = 0
        someElement(field) ==
            /\ call.arg.t = "array"
            /\ \E k \in 1..Len(call.arg.elems) : MissingOrEmpty(call.arg.elems[k][field])
    IN  /\ (call.op = "upsertItem" /\ MissingOrEmpty(call.arg.item_id))
            => rejectedWith("RecoSDK: Validation Error - 'item_id' is required for item operations.")
        /\ (call.op = "batchUpsertItems" /\ someElement("item_id"))
            => rejectedWith("RecoSDK: Validation Error - 'item_id' is required for item operations.")
        /\ (call.op = "upsertUser" /\ MissingOrEmpty(call.arg.user_id))
            => rejectedWith("RecoSDK: Validation Error - 'user_id' is required for user operations.")
        /\ (call.op = "batchUpsertUsers" /\ someElement("user_id"))
            => rejectedWith("RecoSDK: Validation Error - 'user_id' is required for user operations.")
        /\ (call.op = "getRecommendations" /\ MissingOrEmpty(call.arg.user_id))
            => rejectedWith("RecoSDK: Validation Error - 'user_id' is required for recommendations.")

C4_Witness ==
    /\ call.op = "batchUpsertItems"
    /\ call.arg.t = "array" /\ Len(call.arg.elems) = 2
    /\ call.arg.elems[1].item_id = Str("i1")
    /\ call.arg.elems[2].item_id = Str("")
    /\ ValidationFailed

\* C5: trackInteraction of an interaction of type "impression" whose value is
\* not 0 is rejected with a validation error and issues no request; when the
\* interaction is otherwise complete the error is the impression/value one.
C5_ImpressionNonZero ==
    (call.op = "trackInteraction" /\ call.arg.type = Str("impression") /\ call.arg.value # Num(0))
        => /\ ValidationFailed
           /\ Len(sent) = 0
           /\ (~MissingOrEmpty(call.arg.user_id) /\ ~MissingOrEmpty(call.arg.item_id)
                    /\ call.arg.value.t = "number")
                => call.error = Err("RecoSDK: Validation Error - Interaction type 'impression' must have value 0.")

C5_Witness ==
    /\ call.op = "trackInteraction"
    /\ call.arg = [user_id |-> Str("u1"), item_id |-> Str("i1"),
                   type |-> Str("impression"), value |-> Num(1)]
    /\ ValidationFailed

\* C6: trackInteraction of an interaction with non-empty user_id, item_id and
\* type and value 0 passes validation and issues one POST /interactions whose
\* body is the interaction as given, for type "impression" and for any other
\* type: it succeeds when the transport answers.
C6_ZeroValueAccepted ==
    (/\ call.op = "trackInteraction"
     /\ ~MissingOrEmpty(call.arg.user_id) /\ ~MissingOrEmpty(call.arg.item_id)
     /\ ~MissingOrEmpty(call.arg.type)
     /\ call.arg.value = Num(0))
        => /\ PassedValidation
           /\ sent = << [method |-> "POST", url |-> "/interactions",
                         hasBody |-> TRUE, data |-> call.arg] >>

C6_Witness ==
    /\ call.op = "trackInteraction"
    /\ call.arg = [user_id |-> Str("u1"), item_id |-> Str("i1"),
                   type |-> Str("impression"), value |-> Num(0)]
    /\ call.status = "resolved"
    /\ Len(sent) = 1

-----------------------------------------------------------------------------
(* Properties of the constructor *)

\* C7: constructing the client with neither projectId nor baseUrl fails with
\* the configuration error and produces no client: axios.create is not
\* called.
C7_NoEndpointFails ==
    (phase # "new" /\ options.projectId = Undef /\ options.baseUrl = Undef)
        => /\ phase = "failed"
           /\ ctorError = Err("RecoSDK: 'projectId' is required in options unless 'baseUrl' is explicitly provided.")
           /\ created = 0
           /\ client = NoClient

\* C8: constructing the client with a non-empty projectId p and no baseUrl
\* resolves the endpoint to the default host followed by /api/v1/projects/p.
C8_EndpointFromProjectId ==
    (/\ phase # "new"
     /\ options.projectId.t = "string" /\ options.projectId.s # ""
     /\ Falsy(options.baseUrl))
        => /\ phase = "ready"
           /\ client.baseURL = Str("https://reco-api.mioren.com/api/v1/projects/" \o options.projectId.s)

C8_Witness ==
    /\ phase = "ready"
    /\ options.projectId = Str("test-project-id") /\ options.baseUrl = Undef
    /\ client.baseURL = Str("https://reco-api.mioren.com/api/v1/projects/test-project-id")

\* C9: constructing the client with a baseUrl given (a non-empty string, the
\* constructor reading an empty one as not provided) uses that baseUrl as it
\* is as the endpoint, whether or not a projectId is given too.
C9_BaseUrlWins ==
    (phase # "new" /\ options.baseUrl.t = "string" /\ options.baseUrl.s # "")
        => /\ phase = "ready"
           /\ client.baseURL = options.baseUrl

C9_Witness ==
    /\ phase = "ready"
    /\ options.projectId = Str("p1")
    /\ options.baseUrl = Str("https://custom-api.example.com")
    /\ client.baseURL = Str("https://custom-api.example.com")

\* C10: the resolved timeout is the caller's timeout when it is present and
\* positive, and the default of 10000 ms when it is absent, zero or negative.
C10_TimeoutResolution ==
    phase = "ready"
        => client.timeout =
             IF options.timeout.t = "number" /\ options.timeout.n > 0
             THEN options.timeout
             ELSE Num(10000)

-----------------------------------------------------------------------------
(* Properties of the batch and delete operations, of results and failures *)

C12_RecommendationsRoundTrip ==
    (call.op = "getRecommendations" /\ ~MissingOrEmpty(call.arg.user_id))
        => /\ PassedValidation
           /\ sent = << [method |-> "POST", url |-> "/recommendations",
                         hasBody |-> TRUE, data |-> call.arg] >>
           /\ call.status = "resolved"
                => settled.kind = "response" /\ call.result = settled.data

C12_Witness ==
    /\ call.op = "getRecommendations"
    /\ call.arg = [user_id |-> Str("u1"), limit |-> Num(10)]
    /\ call.status = "resolved"
    /\ call.result.recommendation_id = Str("rec-123")
    /\ Len(call.result.recommendations) = 2

\* C14: when the transport fails a request (network error, non-2xx status,
\* timeout) the operation fails with exactly the error the transport raised,
\* for every operation: the error is not caught, wrapped, replaced or
\* swallowed.
C14_TransportErrorPropagates ==
    settled.kind = "error"
        => /\ call.status = "rejected"
           /\ call.error = settled.error
           /\ call.result = Undef

C14_Witness ==
    /\ call.op = "deleteItem"
    /\ settled = Failure([name |-> "AxiosError", message |-> "Request failed with status code 401"])
    /\ call.status = "rejected"
    /\ call.error.message = "Request failed with status code 401"

\* The required fields of an interaction that are missing: user_id, item_id
\* or type absent or empty, value absent or null.
MissingFields(i) ==
    {f \in {"user_id", "item_id", "type"} : MissingOrEmpty(i[f])}
        \cup (IF i.value \in {Undef, Null} THEN {"value"} ELSE {})

\* The fields an error's message names.
NamedFields(e) ==
    CASE e.message = "RecoSDK: Validation Error - 'user_id' is required for interactions." -> {"user_id"}
      [] e.message = "RecoSDK: Validation Error - 'item_id' is required for interactions." -> {"item_id"}
      [] e.message = "RecoSDK: Validation Error - 'type' is required for interactions." -> {"type"}
      [] e.message = "RecoSDK: Validation Error - 'value' is required for interactions." -> {"value"}
      [] e.message = "RecoSDK: Validation Error - Interaction must have user_id, item_id, type, and value."
            -> {"user_id", "item_id", "type", "value"}
      [] e.message = "RecoSDK: Validation Error - Interaction must have user_id, item_id, and type."
            -> {"user_id", "item_id", "type"}
      [] OTHER -> {}

\* C15: trackInteraction of an interaction with a required field missing is
\* rejected with a validation error and issues no request, and the error
\* names every field that is missing.
C15_NamesEveryMissingField ==
    (call.op = "trackInteraction" /\ MissingFields(call.arg) # {})
        => /\ ValidationFailed
           /\ Len(sent) = 0
           /\ MissingFields(call.arg) \subseteq NamedFields(call.error)

\* C16: when trackInteraction rejects an interaction because user_id, item_id
\* or type is missing or value is undefined or null, the message is always
\* "RecoSDK: Validation Error - Interaction must have user_id, item_id, type,
\* and value."
C16_OneMessageForMissingFields ==
    (call.op = "trackInteraction" /\ MissingFields(call.arg) # {} /\ ValidationFailed)
        => call.error.message =
             "RecoSDK: Validation Error - Interaction must have user_id, item_id, type, and value."

BatchOperations ==
    {"batchUpsertItems", "batchUpsertUsers", "batchTrackInteractions",
     "batchDeleteItems", "batchDeleteUsers"}

\* C17: every batch operation called with an argument that is not an array,
\* a non-empty string included, is rejected with a validation error and
\* issues no request.
C17_NonArrayRejected ==
    (call.op \in BatchOperations /\ call.arg.t # "array")
        => ValidationFailed /\ Len(sent) = 0

\* An interaction the validation contract rejects: a required field missing,
\* or type "impression" with a value other than 0.
InvalidInteraction(i) ==
    \/ MissingFields(i) # {}
    \/ i.type = Str("impression") /\ i.value # Num(0)

\* C18: batchTrackInteractions applies the validation of a single interaction
\* to every element: with an invalid element at any position the call is
\* rejected with a validation error and no request is issued, so that no bulk
\* request carries an invalid interaction.
C18_BatchValidatesEveryElement ==
    (/\ call.op = "batchTrackInteractions"
     /\ call.arg.t = "array"
     /\ \E k \in 1..Len(call.arg.elems) : InvalidInteraction(call.arg.elems[k]))
        => ValidationFailed /\ Len(sent) = 0

\* C19: deleteItem and deleteUser called with an empty id are rejected with
\* "itemId is required" / "userId is required" and issue no DELETE; called
\* with a non-empty id they issue exactly one DELETE.
C19_DeleteById ==
    /\ (call.op = "deleteItem" /\ call.arg = Str(""))
        => /\ call.status = "rejected"
           /\ call.error = Err("RecoSDK: Validation Error - itemId is required.")
           /\ Len(sent) = 0
    /\ (call.op = "deleteUser" /\ call.arg = Str(""))
        => /\ call.status = "rejected"
           /\ call.error = Err("RecoSDK: Validation Error - userId is required.")
           /\ Len(sent) = 0
    /\ (call.op \in {"deleteItem", "deleteUser"} /\ call.arg.t = "string" /\ call.arg.s # "")
        => /\ PassedValidation
           /\ Len(sent) = 1
           /\ sent[1].method = "DELETE"

C19_Witness ==
    /\ call.op = "deleteUser"
    /\ call.arg = Str("")
    /\ call.status = "rejected"
    /\ Len(sent) = 0

\* C20: batchUpsertItems, batchUpsertUsers and batchTrackInteractions accept
\* an empty array and issue one POST to their bulk path with the empty list
\* under their key, while batchDeleteItems and batchDeleteUsers reject it.
C20_EmptyArrayAccepted ==
    LET posted(url, data) ==
            /\ PassedValidation
            /\ sent = << [method |-> "POST", url |-> url, hasBody |-> TRUE, data |-> data] >>
    IN  call.arg = Arr(<<>>)
        => /\ call.op = "batchUpsertItems" => posted("/items/bulk", [items |-> Arr(<<>>)])
           /\ call.op = "batchUpsertUsers" => posted("/users/bulk", [users |-> Arr(<<>>)])
           /\ call.op = "batchTrackInteractions"
                => posted("/interactions/bulk", [interactions |-> Arr(<<>>)])
           /\ call.op \in {"batchDeleteItems", "batchDeleteUsers"}
                => ValidationFailed /\ Len(sent) = 0

C20_Witness ==
    /\ call.op = "batchUpsertUsers"
    /\ call.arg = Arr(<<>>)
    /\ call.status = "resolved"
    /\ Len(sent) = 1
    /\ sent[1].data.users = Arr(<<>>)

-----------------------------------------------------------------------------
(* Calls made concurrently: the caller calls an operation while earlier     *)
(* calls are still awaiting the transport.  An operation runs without       *)
(* interruption up to its await; the transport settles the pending requests *)
(* in any order.  No operation takes a lock or reads a field other than     *)
(* this.client.                                                             *)

MaxCalls == 2

ConcOptions ==
    {o \in Options : o.baseUrl = Undef /\ o.timeout = Undef /\ ~Falsy(o.projectId)}

ConcNew == \E o \in ConcOptions : Construct(o, constructor(o))

NewCall(op, arg, r) ==
    [op |-> op, arg |-> arg,
     status |-> IF r.error # NoError THEN "rejected" ELSE "pending",
     error |-> r.error, result |-> Undef,
     sent |-> r.requests, settled |-> NoOutcome]

\* ConcInvoke with a fault: the request is kept in a field of the client, so
\* that the request of a new call replaces the one of every pending call.
ConcInvoke_SharedRequest(op, arg, r) ==
    /\ phase = "ready"
    /\ Len(calls) < MaxCalls
    /\ calls' = Append([k \in 1..Len(calls) |->
                            IF calls[k].status = "pending" /\ r.error = NoError
                            THEN [calls[k] EXCEPT !.sent = r.requests]
                            ELSE calls[k]],
                       NewCall(op, arg, r))
    /\ UNCHANGED <<twin, options, phase, client, created, ctorError, call, sent, settled>>

\* client.op(arg) while other calls may be pending.
ConcInvoke(op, arg, r) ==
    /\ phase = "ready"
    /\ Len(calls) < MaxCalls
    /\ calls' = Append(calls, NewCall(op, arg, r))
    /\ UNCHANGED <<twin, options, phase, client, created, ctorError, call, sent, settled>>

ConcOperation ==
    \/ \E a \in {x \in RecommendationRequests : x.user_id # Str("") /\ x.limit = Num(10)} :
            ConcInvoke("getRecommendations", a, getRecommendations(a))
    \/ \E a \in {x \in Interactions :
                    /\ x.user_id = Str("u1") /\ x.item_id = Str("i1")
                    /\ x.type = Str("impression") /\ x.value \in {Num(0), Num(1)}} :
            ConcInvoke("trackInteraction", a, trackInteraction(a))
    \/ \E a \in {x \in Items : x.item_id # Undef /\ x.created_at = Undef} :
            ConcInvoke("upsertItem", a, upsertItem(a))
    \/ \E a \in {x \in Users : x.user_id # Undef /\ x.created_at = Undef} :
            ConcInvoke("upsertUser", a, upsertUser(a))
    \/ \E a \in {Str(""), Str("id1")} :
            ConcInvoke("deleteItem", a, deleteItem(a))
    \/ \E a \in {Arr(<<>>), Arr(<<Str("id1")>>)} :
            ConcInvoke("batchDeleteUsers", a, batchDeleteUsers(a))

\* The transport answers one of the pending requests.
ConcResolve ==
    /\ \E k \in 1..Len(calls) :
        /\ calls[k].status = "pending"
        /\ \E d \in ResponseBodies :
            calls' = [calls EXCEPT
                        ![k] = [calls[k] EXCEPT !.status = "resolved",
                                                !.result = Return(calls[k].op, [data |-> d]),
                                                !.settled = Response(d)]]
    /\ UNCHANGED <<twin, options, phase, client, created, ctorError, call, sent, settled>>

\* The transport fails one of the pending requests.
ConcReject ==
    /\ \E k \in 1..Len(calls) :
        /\ calls[k].status = "pending"
        /\ \E e \in TransportErrors :
            calls' = [calls EXCEPT
                        ![k] = [calls[k] EXCEPT !.status = "rejected",
                                                !.error = e,
                                                !.settled = Failure(e)]]
    /\ UNCHANGED <<twin, options, phase, client, created, ctorError, call, sent, settled>>

ConcNext == ConcNew \/ ConcOperation \/ ConcResolve \/ ConcReject

ConcSpec == Init /\ [][ConcNext]_vars

\* C13: under every interleaving of concurrent calls each call has its own
\* single request, with the method, path and body of its own operation and
\* argument (none when its own validation failed); its outcome is decided by
\* what the transport gave for its own request alone; and no ordering or
\* mutual exclusion is imposed: a further call can be made while others are
\* pending, and every pending request can be settled whatever the state of
\* the other calls.
C13_ConcurrentCallsIndependent ==
    /\ \A k \in 1..Len(calls) :
        LET c == calls[k]
        IN  /\ c.sent = IF c.status = "rejected" /\ c.settled.kind = "none"
                        THEN <<>>
                        ELSE << TableRequest(c.op, c.arg) >>
            /\ c.status = "pending" <=> (Len(c.sent) = 1 /\ c.settled.kind = "none")
            /\ c.status = "resolved" <=> c.settled.kind = "response"
            /\ c.settled.kind = "error" => c.status = "rejected" /\ c.error = c.settled.error
            /\ (c.status = "resolved" /\ c.op = "getRecommendations")
                    => c.result = c.settled.data
    /\ (phase = "ready" /\ Len(calls) < MaxCalls) => ENABLED ConcOperation
    /\ (\E k \in 1..Len(calls) : calls[k].status = "pending")
            => ENABLED ConcResolve /\ ENABLED ConcReject

C13_Witness ==
    /\ Len(calls) = 2
    /\ calls[1].op = "upsertItem" /\ calls[1].status = "pending"
    /\ calls[2].op = "upsertUser" /\ calls[2].status = "resolved"
    /\ calls[1].sent[1].url = "/items"
    /\ calls[2].sent[1].url = "/users"

-----------------------------------------------------------------------------
(* Properties of the client as a whole *)

\* this.client.post(url, data) / this.client.delete(url): the request axios
\* transmits is the call's request merged with the defaults of the instance.
Transmitted(request) ==
    [baseURL |-> client.baseURL, timeout |-> client.timeout, headers |-> client.headers,
     method |-> request.method, url |-> request.url, data |-> request.data]

\* C21: the connection configuration is computed once at construction and
\* never changes: axios.create is called once, the instance keeps the
\* endpoint, API key and timeout the constructor resolved from its options
\* through every operation call, successful or failed, and every request is
\* transmitted to that endpoint with the header x-api-key equal to the apiKey
\* given at construction and Content-Type application/json.
C21_ConfigurationFixed ==
    /\ [](phase = "ready"
            => /\ created = 1
               /\ client = constructor(options).created[1]
               /\ \A k \in 1..Len(sent) :
                    /\ Transmitted(sent[k]).baseURL = constructor(options).created[1].baseURL
                    /\ Transmitted(sent[k]).headers.xApiKey = options.apiKey
                    /\ Transmitted(sent[k]).headers.contentType = "application/json")
    /\ [][phase = "ready" => (phase' = "ready" /\ client' = client /\ options' = options
                                /\ created' = created)]_vars

C21_Witness ==
    /\ phase = "ready"
    /\ options.apiKey = Str("other-api-key")
    /\ options.baseUrl = Str("https://custom-api.example.com")
    /\ call.op = "upsertUser" /\ call.status = "rejected" /\ settled.kind = "error"
    /\ Len(sent) = 1
    /\ Transmitted(sent[1]).baseURL = Str("https://custom-api.example.com")
    /\ Transmitted(sent[1]).headers.xApiKey = Str("other-api-key")

\* C22: trackInteraction of an interaction with non-empty user_id, item_id
\* and type and no value, the call of the README's usage, is a valid call:
\* it passes validation and the interaction is posted to /interactions.
C22_ValuelessInteractionAccepted ==
    (/\ call.op = "trackInteraction"
     /\ ~MissingOrEmpty(call.arg.user_id) /\ ~MissingOrEmpty(call.arg.item_id)
     /\ ~MissingOrEmpty(call.arg.type)
     /\ call.arg.value = Undef)
        => /\ PassedValidation
           /\ Len(sent) = 1
           /\ sent[1].method = "POST" /\ sent[1].url = "/interactions"
           /\ sent[1].data = call.arg

\* The checks of an interaction in their order, each with whether the
\* interaction fails it and the message of its error.
InteractionChecks(i) ==
    << [fails |-> MissingOrEmpty(i.user_id),
        message |-> "RecoSDK: Validation Error - 'user_id' is required for interactions."],
       [fails |-> MissingOrEmpty(i.item_id),
        message |-> "RecoSDK: Validation Error - 'item_id' is required for interactions."],
       [fails |-> MissingOrEmpty(i.type),
        message |-> "RecoSDK: Validation Error - 'type' is required for interactions."],
       [fails |-> i.value \in {Undef, Null},
        message |-> "RecoSDK: Validation Error - 'value' is required for interactions."],
       [fails |-> i.type = Str("impression") /\ i.value # Num(0),
        message |-> "RecoSDK: Validation Error - Interaction type 'impression' must have value 0."] >>

ItemChecks(i) ==
    << [fails |-> MissingOrEmpty(i.item_id),
        message |-> "RecoSDK: Validation Error - 'item_id' is required for item operations."] >>

\* A sequence of checks reports the first check that fails, alone.
Violates(checks) == \E j \in 1..Len(checks) : checks[j].fails
FirstViolation(checks) ==
    checks[CHOOSE j \in 1..Len(checks) :
                checks[j].fails /\ \A h \in 1..(j - 1) : ~checks[h].fails].message

-----------------------------------------------------------------------------
(* Two runs with the same construction options.  The first run makes any    *)
(* sequence of calls; at each call the second run starts anew: a client     *)
(* just constructed from the same options makes that call as its first.     *)
(* The transport then gives both runs the same outcome for the request.     *)

TwinOptions == {o \in Options : o.timeout = Undef}

TwinNew == \E o \in TwinOptions : Construct(o, constructor(o))

\* How the call made last ended: what precedes the next call of the run.
Ended ==
    CASE call.status = "resolved" -> {"response"}
      [] call.status = "rejected" /\ settled.kind = "error" -> {"transport error"}
      [] call.status = "rejected" /\ settled.kind = "none" -> {"validation error"}
      [] OTHER -> {}

\* TwinInvoke with a fault: the client keeps the call it resolved last and
\* answers a repetition of it from that copy, without a request.
TwinInvoke_Cached(op, arg, r) ==
    /\ phase = "ready"
    /\ call.status # "pending"
    /\ settled' = NoOutcome
    /\ IF call.status = "resolved" /\ call.op = op /\ call.arg = arg
       THEN sent' = <<>> /\ call' = call
       ELSE /\ sent' = r.requests
            /\ call' = [op |-> op, arg |-> arg,
                        status |-> IF r.error # NoError THEN "rejected" ELSE "pending",
                        error |-> r.error, result |-> Undef]
    /\ twin' = [preceded |-> twin.preceded \cup Ended, op |-> op, arg |-> arg,
                status |-> IF r.error # NoError THEN "rejected" ELSE "pending",
                error |-> r.error, result |-> Undef, sent |-> r.requests]
    /\ UNCHANGED <<calls, options, phase, client, created, ctorError>>

\* client.op(arg) in the first run, after the calls it made before, and
\* new RecoClient(options).op(arg) in the second: `r` is what the operation's
\* code gives for arg up to its first await; the code reads arg and
\* this.client and no other field.
TwinInvoke(op, arg, r) ==
    /\ phase = "ready"
    /\ call.status # "pending"
    /\ settled' = NoOutcome
    /\ sent' = r.requests
    /\ call' = [op |-> op, arg |-> arg,
                status |-> IF r.error # NoError THEN "rejected" ELSE "pending",
                error |-> r.error, result |-> Undef]
    /\ twin' = [preceded |-> twin.preceded \cup Ended, op |-> op, arg |-> arg,
                status |-> IF r.error # NoError THEN "rejected" ELSE "pending",
                error |-> r.error, result |-> Undef, sent |-> r.requests]
    /\ UNCHANGED <<calls, options, phase, client, created, ctorError>>

TwinOperation ==
    \/ \E a \in {x \in RecommendationRequests : x.limit = Num(10)} :
            TwinInvoke("getRecommendations", a, getRecommendations(a))
    \/ \E a \in {x \in Interactions : x.user_id = Str("u1") /\ x.type # Undef} :
            TwinInvoke("trackInteraction", a, trackInteraction(a))
    \/ \E a \in {Arr(<<>>), Arr(<< [item_id |-> Str("i1"), created_at |-> Undef] >>),
                  Arr(<< [item_id |-> Str("i1"), created_at |-> Undef],
                         [item_id |-> Str(""), created_at |-> Undef] >>),
                  NonArr(Undef)} :
            TwinInvoke("batchUpsertItems", a, batchUpsertItems(a))
    \/ \E a \in Ids : TwinInvoke("deleteUser", a, deleteUser(a))
    \/ \E a \in {Arr(<<>>), Arr(<<Str("id1")>>), NonArr(Str("ab"))} :
            TwinInvoke("batchDeleteItems", a, batchDeleteItems(a))

\* The transport answers the pending request, in both runs alike.
TwinResolve ==
    /\ call.status = "pending"
    /\ \E d \in ResponseBodies :
        /\ settled' = Response(d)
        /\ call' = [call EXCEPT !.status = "resolved", !.result = Return(call.op, [data |-> d])]
        /\ twin' = [twin EXCEPT !.status = "resolved", !.result = Return(twin.op, [data |-> d])]
    /\ UNCHANGED <<calls, options, phase, client, created, ctorError, sent>>

\* The transport fails the pending request, in both runs alike.
TwinReject ==
    /\ call.status = "pending"
    /\ \E e \in TransportErrors :
        /\ settled' = Failure(e)
        /\ call' = [call EXCEPT !.status = "rejected", !.error = e]
        /\ twin' = [twin EXCEPT !.status = "rejected", !.error = e]
    /\ UNCHANGED <<calls, options, phase, client, created, ctorError, sent>>

TwinNext == TwinNew \/ TwinOperation \/ TwinResolve \/ TwinReject

TwinSpec == Init /\ [][TwinNext]_vars

-----------------------------------------------------------------------------
\* C25: batchDeleteItems and batchDeleteUsers do not validate the ids of the
\* array: a non-empty array that contains an empty-string id passes
\* validation and is posted as it is, under item_ids / user_ids, although
\* deleteItem and deleteUser reject an empty id and issue no request.
C25_BatchDeleteIdsNotValidated ==
    LET hasEmptyId ==
            /\ call.arg.t = "array"
            /\ \E k \in 1..Len(call.arg.elems) : call.arg.elems[k] = Str("")
    IN  /\ (call.op = "batchDeleteItems" /\ hasEmptyId)
            => /\ PassedValidation
               /\ sent = << [method |-> "POST", url |-> "/items/bulk-delete",
                             hasBody |-> TRUE, data |-> [item_ids |-> call.arg]] >>
        /\ (call.op = "batchDeleteUsers" /\ hasEmptyId)
            => /\ PassedValidation
               /\ sent = << [method |-> "POST", url |-> "/users/bulk-delete",
                             hasBody |-> TRUE, data |-> [user_ids |-> call.arg]] >>
        /\ (call.op \in {"deleteItem", "deleteUser"} /\ call.arg = Str(""))
            => ValidationFailed /\ sent = <<>>

C25_Witness ==
    /\ call.op = "batchDeleteUsers"
    /\ call.arg = Arr(<<Str("id1"), Str("")>>)
    /\ call.status = "resolved"
    /\ sent[1].data.user_ids.elems[2] = Str("")

====
